---- MODULE Spec2Model ----
(***************************************************************************)
(* A model of TruAudiobook (src/tru_audiobook/__init__.py and the CLI in   *)
(* src/tru_audiobook/scripts/truaudiobook.py).                             *)
(*                                                                         *)
(* Python strings are sequences of one-character strings, so that the      *)
(* string functions of the program (replace, split, strip, rfind, int,     *)
(* float, zfill, str) are computed character by character.                 *)
(* Times are integers counting ticks of 1/30000 s: one 4-decimal step of   *)
(* "{:.4f}" is 3 ticks, so rounding to 4 decimals is a real operation and  *)
(* never meets a tie.                                                      *)
(***************************************************************************)
EXTENDS Integers, Sequences, FiniteSets, TLC

(***************************************************************************)
(* Python string primitives                                                *)
(***************************************************************************)
Digits == {"0", "1", "2", "3", "4", "5", "6", "7", "8", "9"}

DigitVal(c) ==
    CASE c = "0" -> 0 [] c = "1" -> 1 [] c = "2" -> 2 [] c = "3" -> 3
      [] c = "4" -> 4 [] c = "5" -> 5 [] c = "6" -> 6 [] c = "7" -> 7
      [] c = "8" -> 8 [] c = "9" -> 9

DigitChar(d) ==
    CASE d = 0 -> "0" [] d = 1 -> "1" [] d = 2 -> "2" [] d = 3 -> "3"
      [] d = 4 -> "4" [] d = 5 -> "5" [] d = 6 -> "6" [] d = 7 -> "7"
      [] d = 8 -> "8" [] d = 9 -> "9"

\* str(n) for a natural number n
RECURSIVE Str(_)
Str(n) == IF n < 10 THEN <<DigitChar(n)>> ELSE Str(n \div 10) \o <<DigitChar(n % 10)>>

\* s.zfill(width)
RECURSIVE zfill(_, _)
zfill(s, width) == IF Len(s) >= width THEN s ELSE zfill(<<"0">> \o s, width)

\* s[i:] with a 1-based i
Suffix(s, i) == SubSeq(s, i, Len(s))

\* s.startswith(sub, i - 1)
StartsWithAt(s, sub, i) ==
    /\ i + Len(sub) - 1 <= Len(s)
    /\ SubSeq(s, i, i + Len(sub) - 1) = sub

\* s.rfind(sub) + 1: the 1-based place of the last occurrence, 0 when there is none
rfind(s, sub) ==
    LET hits == {i \in 1..Len(s) : StartsWithAt(s, sub, i)}
    IN  IF hits = {} THEN 0 ELSE CHOOSE i \in hits : \A j \in hits : j <= i

\* s.replace(sub, repl), sub not empty: left to right, occurrences not overlapping
RECURSIVE replace(_, _, _)
replace(s, sub, repl) ==
    IF s = <<>> THEN <<>>
    ELSE IF StartsWithAt(s, sub, 1)
         THEN repl \o replace(Suffix(s, Len(sub) + 1), sub, repl)
         ELSE <<Head(s)>> \o replace(Tail(s), sub, repl)

Whitespace == {" "}

RECURSIVE lstrip(_)
lstrip(s) == IF s # <<>> /\ Head(s) \in Whitespace THEN lstrip(Tail(s)) ELSE s

RECURSIVE rstrip(_)
rstrip(s) ==
    IF s # <<>> /\ s[Len(s)] \in Whitespace THEN rstrip(SubSeq(s, 1, Len(s) - 1)) ELSE s

\* s.strip()
strip(s) == rstrip(lstrip(s))

\* s.split(sep) for a one-character sep: the fields, at least one
RECURSIVE split(_, _)
split(s, sep) ==
    LET hits == {i \in 1..Len(s) : s[i] = sep}
    IN  IF hits = {} THEN <<s>>
        ELSE LET i == CHOOSE k \in hits : \A j \in hits : k <= j
             IN  <<SubSeq(s, 1, i - 1)>> \o split(Suffix(s, i + 1), sep)

\* sep in s
Contains(s, sep) == \E i \in 1..Len(s) : s[i] = sep

AllDigits(s) == s # <<>> /\ \A i \in 1..Len(s) : s[i] \in Digits

RECURSIVE DigitsVal(_)
DigitsVal(s) == IF s = <<>> THEN 0 ELSE DigitsVal(SubSeq(s, 1, Len(s) - 1)) * 10 + DigitVal(s[Len(s)])

\* int(s): surrounding whitespace and one sign are accepted; anything else than
\* decimal digits raises ValueError
int(s) ==
    LET t == strip(s)
        signed == t # <<>> /\ Head(t) \in {"+", "-"}
        body == IF signed THEN Tail(t) ELSE t
    IN  IF AllDigits(body)
        THEN [ok |-> TRUE,
              val |-> IF signed /\ Head(t) = "-" THEN 0 - DigitsVal(body) ELSE DigitsVal(body)]
        ELSE [ok |-> FALSE, val |-> 0]

TicksPerSecond == 3 * 10000

RECURSIVE Pow10(_)
Pow10(k) == IF k = 0 THEN 1 ELSE 10 * Pow10(k - 1)

\* float(s) of a non-negative decimal text "ddd" or "ddd.ddd", in ticks (the
\* fraction is exact up to 4 digits and truncated to the tick beyond that);
\* any other text raises ValueError
float(s) ==
    LET t == strip(s)
        f == split(t, ".")
    IN  IF Len(f) = 1 /\ AllDigits(f[1])
        THEN [ok |-> TRUE, val |-> DigitsVal(f[1]) * TicksPerSecond]
        ELSE IF Len(f) = 2 /\ AllDigits(f[1] \o f[2]) /\ (f[1] # <<>> \/ f[2] # <<>>)
        THEN [ok |-> TRUE,
              val |-> DigitsVal(f[1]) * TicksPerSecond
                      + (DigitsVal(f[2]) * TicksPerSecond) \div Pow10(Len(f[2]))]
        ELSE [ok |-> FALSE, val |-> 0]

\* float("{:.4f}".format(t)): the nearest multiple of 0.0001 s (3 ticks)
Round4(t) == ((t + 1) \div 3) * 3


(***************************************************************************)
(* The static helpers of TruAudiobook                                      *)
(***************************************************************************)
\* A raised exception carries no value; a returned value carries raised = "".
Raise(name) == [raised |-> name]
Return(v) == [raised |-> "", val |-> v]

\* get_part: path[path.rfind('Part'):] split at every '#', else at every '?',
\* else [_part, 0].  rfind gives -1 when 'Part' is absent, and path[-1:] is the
\* last character.  The integer 0 of the else branch is written as the text "0":
\* its only use is float(_start), and float(0) = float("0").
get_part(path) ==
    LET at == rfind(path, <<"P", "a", "r", "t">>)
        _part == IF at = 0
                 THEN (IF path = <<>> THEN <<>> ELSE <<path[Len(path)]>>)
                 ELSE Suffix(path, at)
    IN  IF Contains(_part, "#") THEN split(_part, "#")
        ELSE IF Contains(_part, "?") THEN split(_part, "?")
        ELSE <<_part, <<"0">>>>

\* get_start with the length test loosened to "at least 3 fields": a fourth field
\* is then dropped without an error
get_start_AnyLength(timestamp) ==
    LET parsed == split(timestamp, ":")
        timestamp_split == [i \in 1..Len(parsed) |-> int(parsed[i])]
    IN  IF \E i \in 1..Len(parsed) : ~timestamp_split[i].ok THEN Raise("ValueError")
        ELSE IF Len(parsed) = 2
        THEN Return(timestamp_split[1].val * 60 + timestamp_split[2].val)
        ELSE IF Len(parsed) >= 3
        THEN Return(timestamp_split[1].val * 3600 + timestamp_split[2].val * 60
                    + timestamp_split[3].val)
        ELSE Raise("RuntimeError: Invalid timestamp format")

\* get_start: list(map(int, timestamp.split(":"))) raises ValueError at the first
\* field int() refuses, before the number of fields is looked at.
get_start(timestamp) ==
    LET parsed == split(timestamp, ":")
        timestamp_split == [i \in 1..Len(parsed) |-> int(parsed[i])]
    IN  IF \E i \in 1..Len(parsed) : ~timestamp_split[i].ok THEN Raise("ValueError")
        ELSE IF Len(parsed) = 2
        THEN Return(0 * 3600 + timestamp_split[1].val * 60 + timestamp_split[2].val)
        ELSE IF Len(parsed) = 3
        THEN Return(timestamp_split[1].val * 3600 + timestamp_split[2].val * 60
                    + timestamp_split[3].val)
        ELSE Raise("RuntimeError: Invalid timestamp format")

\* the for loop of clean_string over _replaces
RECURSIVE ApplyReplaces(_, _)
ApplyReplaces(string, _replaces) ==
    IF _replaces = <<>> THEN string
    ELSE ApplyReplaces(replace(string, Head(_replaces)[1], Head(_replaces)[2]),
                       Tail(_replaces))

\* re.search(r"^\d+\.", string).group(), or <<>> when there is no match
OrdinalMatch(string) ==
    LET ends == {i \in 1..Len(string) :
                    /\ string[i] = "."
                    /\ i > 1
                    /\ \A j \in 1..(i - 1) : string[j] \in Digits}
    IN  IF ends = {} THEN <<>>
        ELSE SubSeq(string, 1, CHOOSE i \in ends : TRUE)

\* the default _replaces of clean_string; "\'" is the one character "'"
DefaultReplaces == << <<(<<"/">>), (<<":">>)>>, <<(<<"'">>), (<<"'">>)>> >>

\* clean_string(string, replaces); replaces = <<>> stands for None
clean_string(string, replaces) ==
    LET replaced == ApplyReplaces(string, DefaultReplaces \o replaces)
        match == OrdinalMatch(replaced)
    IN  IF match # <<>> THEN strip(replace(replaced, match, <<>>)) ELSE replaced


(***************************************************************************)
(* compile_chapters                                                        *)
(*                                                                         *)
(* A TOC item is a record with a title and a timestamp, a path or neither. *)
(* durations is a function from part names to ticks.  The chapters dict is *)
(* the sequence of its values in insertion order, keyed by their title; a  *)
(* chapter has no "end" until one is assigned.  The tags that are the same *)
(* for all chapters of a book (artist, album_artist, album, genre, date)   *)
(* are left out.                                                           *)
(***************************************************************************)
None == <<>>
Some(x) == <<x>>

\* the locals of compile_chapters on entry to its loop
CompileEntry ==
    [chapters |-> <<>>, last_chapter |-> None, last_duration_part |-> None,
     offset |-> 0, track_num |-> 0, raised |-> ""]

\* the duplicate test looking at the previous chapter only
InChapters_LastOnly(chapters, chapter_title) ==
    chapters # <<>> /\ chapters[Len(chapters)].title = chapter_title

\* chapter_title in chapters
InChapters(chapters, chapter_title) ==
    \E i \in 1..Len(chapters) : chapters[i].title = chapter_title

\* chapters[title]["end"] = end
SetEnd(chapters, title, end) ==
    [i \in 1..Len(chapters) |->
        IF chapters[i].title = title
        THEN [end |-> end] @@ [k \in DOMAIN chapters[i] \ {"end"} |-> chapters[i][k]]
        ELSE chapters[i]]

\* f"{str(track_num).zfill(2)} - {chapter_title}.mp3"
OutfileName(track_num, chapter_title) ==
    zfill(Str(track_num), 2) \o <<" ", "-", " ">> \o chapter_title \o <<".", "m", "p", "3">>

\* lines 295-309: the chapter is recorded and the previous chapter's end is set
RecordChapter(st, chapter_title, track_num, _start, offset, last_duration_part) ==
    LET start_ == Round4(_start + offset)
        chapter == [title |-> chapter_title,
                    track |-> Str(track_num),
                    outfile |-> OutfileName(track_num, chapter_title),
                    start |-> start_]
        added == Append(st.chapters, chapter)
    IN  [chapters |-> IF st.last_chapter # None
                      THEN SetEnd(added, st.last_chapter[1], start_)
                      ELSE added,
         last_chapter |-> Some(chapter_title),
         last_duration_part |-> last_duration_part,
         offset |-> offset,
         track_num |-> track_num,
         raised |-> ""]

\* lines 286-292: a part-relative marker
PathItem(st, chapter_title, track_num, path, durations) ==
    LET parts == get_part(path)
    IN  IF Len(parts) # 2
        THEN [st EXCEPT !.raised = "ValueError"]
        ELSE
        LET _part == parts[1]
            last_duration_part == IF st.last_duration_part = None THEN _part
                                  ELSE st.last_duration_part[1]
        IN  IF last_duration_part \notin DOMAIN durations \/ _part \notin DOMAIN durations
            THEN [st EXCEPT !.raised = "KeyError"]
            ELSE
            LET crossing == durations[last_duration_part] # durations[_part]
                offset == IF crossing THEN st.offset + durations[last_duration_part]
                          ELSE st.offset
                _start == float(parts[2])
            IN  IF ~_start.ok
                THEN [st EXCEPT !.raised = "ValueError"]
                ELSE RecordChapter(st, chapter_title, track_num, _start.val, offset,
                                   Some(IF crossing THEN _part ELSE last_duration_part))

\* one iteration of the loop of compile_chapters (lines 278-309)
compile_item(st, _item, durations) ==
    LET chapter_title == clean_string(_item.title, <<>>)
        track_num == st.track_num + 1
    IN  IF InChapters(st.chapters, chapter_title) THEN st
        ELSE IF "timestamp" \in DOMAIN _item
        THEN LET _start == get_start(_item.timestamp)
             IN  IF _start.raised # ""
                 THEN [st EXCEPT !.raised = _start.raised]
                 ELSE RecordChapter(st, chapter_title, track_num,
                                    _start.val * TicksPerSecond, st.offset,
                                    st.last_duration_part)
        ELSE IF "path" \in DOMAIN _item
        THEN PathItem(st, chapter_title, track_num, _item.path, durations)
        ELSE [st EXCEPT !.raised = "Exception: Unknown chapter reference"]

\* sum(durations.values())
RECURSIVE SumOver(_, _)
SumOver(durations, keys) ==
    IF keys = {} THEN 0
    ELSE LET k == CHOOSE x \in keys : TRUE
         IN  durations[k] + SumOver(durations, keys \ {k})

TotalDuration(durations) == SumOver(durations, DOMAIN durations)

\* the second pass appending each chapter's own number instead of the total
TrackTotals_OwnNumber(chapters) ==
    [i \in 1..Len(chapters) |->
        [chapters[i] EXCEPT !.track = @ \o <<"/">> \o Str(i)]]

\* chapter["track"] += f"/{len(chapters)}"
TrackTotals(chapters) ==
    [i \in 1..Len(chapters) |->
        [chapters[i] EXCEPT !.track = @ \o <<"/">> \o Str(Len(chapters))]]

\* lines 311-318: after the loop.  chapters[None] raises KeyError for an empty TOC
compile_return(st, durations) ==
    IF st.raised # "" THEN st
    ELSE IF st.last_chapter = None THEN [st EXCEPT !.raised = "KeyError"]
    ELSE [st EXCEPT !.chapters =
             TrackTotals(SetEnd(st.chapters, st.last_chapter[1], TotalDuration(durations)))]

RECURSIVE compile_loop(_, _, _)
compile_loop(st, toc_, durations) ==
    IF toc_ = <<>> \/ st.raised # "" THEN st
    ELSE compile_loop(compile_item(st, Head(toc_), durations), Tail(toc_), durations)

\* compile_chapters(toc, durations): the locals on return, chapters being the result
compile_chapters(toc_, durations) ==
    compile_return(compile_loop(CompileEntry, toc_, durations), durations)

(***************************************************************************)
(* State                                                                   *)
(***************************************************************************)
VARIABLES
    \* a call of clean_string
    string,          \* its argument
    replaces,        \* its replaces argument, <<>> for None
    cleaned,         \* what it returned
    clean_pc,        \* "call" before the call, "return" after it
    \* a call of get_start
    timestamp,       \* its argument
    fields,          \* the fields the timestamp was written from
    start,           \* what it returned or raised
    start_pc,        \* "call" before the call, "return" after it
    \* a call of compile_chapters
    toc,             \* its toc argument
    durations,       \* its durations argument
    pos,             \* the number of TOC items the loop has taken
    loop,            \* its locals: chapters, last_chapter, last_duration_part,
                     \* offset, track_num, and the exception raised ("" for none)
    compile_pc,      \* "loop" in the loop, "return" once returned or raised
    \* runs of the command line over a book data directory
    book_files,      \* the book records of the JSON files of book_data_dir
    dry_run,         \* self.dry_run
    dev,             \* self.dev
    book_data,       \* self.book_data
    index,           \* the number of books the loop of run() has finished
    result,          \* self.result
    run_pc,          \* "start", "books" (loop of run), "parts" (loop of
                     \* download_and_process), "chapters" (loop of
                     \* convert_chapters), "exit" (the process has ended)
    exit_code,       \* the exit status of the process, -1 while it runs
    returned,        \* what run() returned: "True", "False", or "none"
    error,           \* the exception that ended the process, "" for none
    dest_dirs,       \* the titles whose destination directory exists
    dest_files,      \* the <<title, outfile>> that exist as files
    dev_dir,         \* per title, the files of its dev-mode download directory
    tmp_dir,         \* the files of the temporary download directory
    part_index,      \* the number of spine items download_and_process has taken
    all_found,       \* all_found of download_and_process
    probed,          \* durations of download_and_process
    timeline,        \* the chapters convert_chapters was given
    ch_index,        \* index of convert_chapters
    run_no,          \* how many times the command line has been run
    outcomes,        \* per book process_contents was called for in this run:
                     \* "True", "False" or "raised"
    invocations,     \* the calls of the transcoder on a chapter, each with
                     \* whether its output file existed and whether an export
                     \* of that book had been completed before
    exported,        \* the titles a non-dry convert_chapters has completed for
    failed_export    \* the titles whose export failed after a chapter file of
                     \* theirs had been written

clean_vars == <<string, replaces, cleaned, clean_pc>>
start_vars == <<timestamp, fields, start, start_pc>>
compile_vars == <<toc, durations, pos, loop, compile_pc>>
fs_vars == <<dest_dirs, dest_files, dev_dir, tmp_dir>>
call_vars == <<part_index, all_found, probed, timeline, ch_index>>
ghost_vars == <<outcomes, invocations, exported, failed_export>>
run_vars == <<book_files, dry_run, dev, book_data, index, result, run_pc, exit_code,
              returned, error, run_no, fs_vars, call_vars, ghost_vars>>
vars == <<clean_vars, start_vars, compile_vars, run_vars>>

CleanIdle == string = <<>> /\ replaces = <<>> /\ cleaned = <<>> /\ clean_pc = "idle"
StartIdle == timestamp = <<>> /\ fields = <<>> /\ start = Raise("") /\ start_pc = "idle"
CompileIdle ==
    /\ toc = <<>>
    /\ durations = <<>>
    /\ pos = 0
    /\ loop = CompileEntry
    /\ compile_pc = "idle"
RunIdle ==
    /\ book_files = <<>>
    /\ dry_run = FALSE
    /\ dev = FALSE
    /\ book_data = <<>>
    /\ index = 0
    /\ result = TRUE
    /\ run_pc = "idle"
    /\ exit_code = -1
    /\ returned = "none"
    /\ error = ""
    /\ run_no = 0
    /\ dest_dirs = {}
    /\ dest_files = {}
    /\ dev_dir = <<>>
    /\ tmp_dir = {}
    /\ part_index = 0
    /\ all_found = TRUE
    /\ probed = <<>>
    /\ timeline = <<>>
    /\ ch_index = 0
    /\ outcomes = <<>>
    /\ invocations = {}
    /\ exported = {}
    /\ failed_export = {}

RECURSIVE Flatten(_)
Flatten(ss) == IF ss = <<>> THEN <<>> ELSE Head(ss) \o Flatten(Tail(ss))

\* the sequences over S of length lo..hi
SeqsOf(S, lo, hi) == UNION {[1..n -> S] : n \in lo..hi}

(***************************************************************************)
(* clean_string on titles written from a few pieces                        *)
(***************************************************************************)
MaxPieces == 5

TitlePieces ==
    { <<"3", ".">>, <<" ">>, <<"S", "m", "i", "t", "h">>, <<"'">>,
      <<"s", " ", "F", "o", "l", "l", "y">>, <<"/">>,
      <<"P", "a", "r", "t", " ", "A">>, <<"B">> }

\* replaces of process_contents: [("'", "")]
StripApostrophes == << <<(<<"'">>), <<>> >> >>

InitClean ==
    /\ string \in {Flatten(ps) : ps \in SeqsOf(TitlePieces, 0, MaxPieces)}
    /\ replaces \in {<<>>, StripApostrophes}
    /\ cleaned = <<>>
    /\ clean_pc = "call"
    /\ StartIdle
    /\ CompileIdle
    /\ RunIdle

CleanString ==
    /\ clean_pc = "call"
    /\ cleaned' = clean_string(string, replaces)
    /\ clean_pc' = "return"
    /\ UNCHANGED <<string, replaces, start_vars, compile_vars, run_vars>>

NextClean == CleanString

SpecClean == InitClean /\ [][NextClean]_vars

(***************************************************************************)
(* get_start on timestamps written from a few fields                       *)
(***************************************************************************)
MaxFields == 4

\* a field: a number written plainly or padded to two digits, or a text that is
\* no integer (val is then not looked at)
FieldChoices ==
    {[text |-> Str(n), val |-> n, integer |-> TRUE] : n \in {1, 2, 3, 4}}
    \cup {[text |-> zfill(Str(n), 2), val |-> n, integer |-> TRUE] : n \in {1, 2, 3, 4}}
    \cup {[text |-> <<>>, val |-> 0, integer |-> FALSE],
          [text |-> <<"x">>, val |-> 0, integer |-> FALSE]}

\* ":".join(texts)
RECURSIVE JoinColon(_)
JoinColon(fs) ==
    IF Len(fs) = 1 THEN fs[1].text
    ELSE fs[1].text \o <<":">> \o JoinColon(Tail(fs))

InitStart ==
    /\ fields \in SeqsOf(FieldChoices, 1, MaxFields)
    /\ timestamp = JoinColon(fields)
    /\ start = Raise("")
    /\ start_pc = "call"
    /\ CleanIdle
    /\ CompileIdle
    /\ RunIdle

GetStart ==
    /\ start_pc = "call"
    /\ start' = get_start(timestamp)
    /\ start_pc' = "return"
    /\ UNCHANGED <<timestamp, fields, clean_vars, compile_vars, run_vars>>

NextStart == GetStart

SpecStart == InitStart /\ [][NextStart]_vars


(***************************************************************************)
(* Properties of clean_string and get_start                                *)
(***************************************************************************)
\* the cleaning the claim describes: '/' becomes ':', apostrophes go when asked
\* for, a leading "<digits>." goes, and nothing else changes
RECURSIVE MapChars(_, _)
MapChars(s, strip_apostrophes) ==
    IF s = <<>> THEN <<>>
    ELSE (IF Head(s) = "/" THEN <<":">>
          ELSE IF Head(s) = "'" /\ strip_apostrophes THEN <<>>
          ELSE <<Head(s)>>) \o MapChars(Tail(s), strip_apostrophes)

ClaimedClean(s, strip_apostrophes) ==
    LET mapped == MapChars(s, strip_apostrophes)
    IN  Suffix(mapped, Len(OrdinalMatch(mapped)) + 1)

\* C9 (as claimed): clean_string returns the title with '/' mapped to ':',
\* apostrophes stripped when requested and only a leading "<digits>." removed.
\* White space at either end is not held against the code.
C9_CleanOnlyLeadingOrdinal ==
    clean_pc = "return" =>
        strip(cleaned) = strip(ClaimedClean(string, replaces = StripApostrophes))

\* C10: with integer fields, 2 fields give mm*60+ss, 3 fields hh*3600+mm*60+ss, and
\* any other number of fields raises the invalid-timestamp-format error with no
\* value; "01:02:03" is 3723, "02:03" is 123 and "1:2:3:4" fails.
C10_GetStart ==
    (start_pc = "return" /\ \A i \in 1..Len(fields) : fields[i].integer) =>
        /\ Len(fields) = 2 => start = Return(fields[1].val * 60 + fields[2].val)
        /\ Len(fields) = 3 =>
              start = Return(fields[1].val * 3600 + fields[2].val * 60 + fields[3].val)
        /\ Len(fields) \notin {2, 3} =>
              /\ start.raised = "RuntimeError: Invalid timestamp format"
              /\ "val" \notin DOMAIN start
        /\ timestamp = <<"0", "1", ":", "0", "2", ":", "0", "3">> => start = Return(3723)
        /\ timestamp = <<"0", "2", ":", "0", "3">> => start = Return(123)
        /\ timestamp = <<"1", ":", "2", ":", "3", ":", "4">> => start.raised # ""

\* C10 witness: "1:2:3:4" has been refused with the format error
C10_Witness ==
    /\ start_pc = "return"
    /\ timestamp = <<"1", ":", "2", ":", "3", ":", "4">>
    /\ start = Raise("RuntimeError: Invalid timestamp format")

(***************************************************************************)
(* compile_chapters on TOCs of a few markers over a spine of three parts   *)
(***************************************************************************)
MaxToc == 3

PartName(n) == <<"P", "a", "r", "t">> \o zfill(Str(n), 2)

\* 600.0 s, and 550.0 s plus a third of 0.0001 s
D600 == 600 * TicksPerSecond
D550 == 550 * TicksPerSecond + 1

SpineParts == {PartName(1), PartName(2), PartName(3)}

Titles == { <<"C", "h", " ", "1">>, <<"C", "h", " ", "2">> }

\* "1. Ch 1", which cleans to "Ch 1"
NumberedTitle == <<"1", ".", " ", "C", "h", " ", "1">>

\* "Part01#590.0", "Part02#10.0", "Part03#10.0"
PathChoices ==
    { PartName(1) \o <<"#", "5", "9", "0", ".", "0">>,
      PartName(2) \o <<"#", "1", "0", ".", "0">>,
      PartName(3) \o <<"#", "1", "0", ".", "0">> }

\* "x-Part02.mp3#10.0"
Mp3Path == <<"x", "-">> \o PartName(2) \o <<".", "m", "p", "3", "#", "1", "0", ".", "0">>

\* "02:03"
TimestampChoices == { <<"0", "2", ":", "0", "3">> }

Markers ==
    {[title |-> t, path |-> p] : t \in Titles, p \in PathChoices}
    \cup {[title |-> t, timestamp |-> ts] : t \in Titles, ts \in TimestampChoices}
    \cup {[title |-> NumberedTitle, path |-> PartName(2) \o <<"#", "1", "0", ".", "0">>],
          [title |-> <<"C", "h", " ", "2">>, path |-> Mp3Path],
          [title |-> <<"C", "h", " ", "2">>],
          [title |-> <<"C", "h", " ", "3">>, timestamp |-> <<"0", "2", ":", "0", "3">>]}

InitCompile ==
    /\ toc \in SeqsOf(Markers, 0, MaxToc)
    /\ durations \in {d \in [SpineParts -> {D600, D550}] : d[PartName(1)] = D600}
    /\ pos = 0
    /\ loop = CompileEntry
    /\ compile_pc = "loop"
    /\ CleanIdle
    /\ StartIdle
    /\ RunIdle

\* one iteration of the for loop; an exception ends the call
CompileItem ==
    /\ compile_pc = "loop"
    /\ pos < Len(toc)
    /\ pos' = pos + 1
    /\ loop' = compile_item(loop, toc[pos + 1], durations)
    /\ compile_pc' = IF loop'.raised # "" THEN "return" ELSE "loop"
    /\ UNCHANGED <<toc, durations, clean_vars, start_vars, run_vars>>

\* the loop is over: the last end, the track totals, return
CompileReturn ==
    /\ compile_pc = "loop"
    /\ pos = Len(toc)
    /\ loop' = compile_return(loop, durations)
    /\ compile_pc' = "return"
    /\ UNCHANGED <<toc, durations, pos, clean_vars, start_vars, run_vars>>

NextCompile == CompileItem \/ CompileReturn

SpecCompile == InitCompile /\ [][NextCompile]_vars


(***************************************************************************)
(* Properties of compile_chapters                                          *)
(***************************************************************************)
Returned == compile_pc = "return" /\ loop.raised = ""

CleanTitle(i) == clean_string(toc[i].title, <<>>)

\* the place in the TOC of the first marker whose cleaned title is title
FirstMarker(title) ==
    CHOOSE i \in 1..Len(toc) :
        /\ CleanTitle(i) = title
        /\ \A j \in 1..(i - 1) : CleanTitle(j) # title

\* the places of the markers that open a new cleaned title, among the first n
FirstOccurrences(n) == {i \in 1..n : \A j \in 1..(i - 1) : CleanTitle(j) # CleanTitle(i)}

IsPathMarker(i) == "path" \in DOMAIN toc[i]

\* the sequence number of the part a "PartNN#offset" path names, 0 for any other path
PartNumber(path) ==
    IF \E n \in 1..3 : SubSeq(path, 1, 6) = PartName(n)
    THEN CHOOSE n \in 1..3 : SubSeq(path, 1, 6) = PartName(n)
    ELSE 0

\* the seconds a "PartNN#sss.0" path names
PathSeconds(path) ==
    IF path = PartName(1) \o <<"#", "5", "9", "0", ".", "0">> THEN 590 ELSE 10

\* a TOC of part-relative markers of spine parts only, in playing order
WellOrderedToc ==
    /\ Len(toc) >= 1
    /\ \A i \in 1..Len(toc) : IsPathMarker(i) /\ PartNumber(toc[i].path) # 0
    /\ \A i \in 1..(Len(toc) - 1) :
          /\ PartNumber(toc[i].path) < PartNumber(toc[i + 1].path)
          /\ CleanTitle(i) # CleanTitle(i + 1)
    /\ \A i, j \in 1..Len(toc) : i # j => CleanTitle(i) # CleanTitle(j)

\* C1 (as claimed): the returned timeline is strictly ordered by start, contiguous
\* and complete, and no chapter ends before it starts.  Stated for TOCs whose
\* markers are part-relative and in playing order, where the claim leaves no doubt.
C1_TimelineOrdered ==
    (Returned /\ WellOrderedToc) =>
        LET ch == loop.chapters
        IN  /\ \A i \in 1..(Len(ch) - 1) :
                  ch[i].start < ch[i + 1].start /\ ch[i].end = ch[i + 1].start
            /\ ch[Len(ch)].end = TotalDuration(durations)
            /\ \A i \in 1..Len(ch) : ch[i].start <= ch[i].end

\* the global position the claim gives a part-relative marker: the durations of the
\* parts before its own, plus its offset, at 4 decimals
GlobalPosition(path) ==
    Round4(SumOver(durations, {PartName(m) : m \in 1..(PartNumber(path) - 1)})
           + PathSeconds(path) * TicksPerSecond)

\* C2 (as claimed): every chapter compiled from a part-relative marker starts at the
\* sum of the durations of the parts that precede the marker's part plus the
\* marker's offset.
C2_GlobalStart ==
    (Returned /\ WellOrderedToc) =>
        \A k \in 1..Len(loop.chapters) :
            loop.chapters[k].start = GlobalPosition(toc[FirstMarker(loop.chapters[k].title)].path)

\* C12 (as claimed): a chapter compiled from an absolute-timestamp marker starts at
\* exactly the seconds get_start parses from the timestamp, whatever offset the
\* part-relative markers before it have accumulated.
C12_AbsoluteStart ==
    \A k \in 1..Len(loop.chapters) :
        LET marker == toc[FirstMarker(loop.chapters[k].title)]
        IN  "timestamp" \in DOMAIN marker =>
                loop.chapters[k].start = get_start(marker.timestamp).val * TicksPerSecond

\* the part a part-relative locator names: the last "Part" of the path with the two
\* digits of its sequence number, <<>> for a path without one
ReferencedPart(path) ==
    LET at == rfind(path, <<"P", "a", "r", "t">>)
    IN  IF at = 0 \/ at + 5 > Len(path) THEN <<>>
        ELSE IF path[at + 4] \in Digits /\ path[at + 5] \in Digits
        THEN SubSeq(path, at, at + 5)
        ELSE <<>>

\* C13 (as claimed): for a marker the loop has taken whose path names a part of
\* the spine, get_part yields that part's key of durations, "Part<NN>", and the
\* marker does not end compile_chapters with a missing-duration KeyError.
C13_PartKeyOfSpinePart ==
    \A i \in 1..pos :
        (IsPathMarker(i) /\ ReferencedPart(toc[i].path) \in DOMAIN durations) =>
            /\ get_part(toc[i].path)[1] = ReferencedPart(toc[i].path)
            /\ ~(i = pos /\ loop.raised = "KeyError")

\* what the loop would hold had the TOC ended after its n-th marker
AfterPrefix(n) == compile_loop(CompileEntry, SubSeq(toc, 1, n), durations)

\* C7: duplicate-title markers are dropped.  While the loop runs there is one
\* chapter per distinct cleaned title met so far; the chapters returned have the
\* title and start that the first marker of their title was given; and a step on a
\* marker whose cleaned title is already compiled leaves chapters, track_num,
\* offset and last_duration_part as they were.
C7_DuplicatesDropped ==
    /\ [](loop.raised = "" =>
            Len(loop.chapters) = Cardinality({CleanTitle(i) : i \in 1..pos}))
    /\ [](Returned =>
            \A k \in 1..Len(loop.chapters) :
                LET first == FirstMarker(loop.chapters[k].title)
                    then == AfterPrefix(first).chapters
                IN  /\ then[Len(then)].title = loop.chapters[k].title
                    /\ then[Len(then)].start = loop.chapters[k].start)
    /\ [][(/\ compile_pc = "loop"
           /\ pos < Len(toc)
           /\ \E j \in 1..pos : CleanTitle(j) = CleanTitle(pos + 1))
          => loop' = loop]_vars

\* C7 witness: the TOC "Ch 1", "Ch 1", "Ch 2" has compiled to two chapters
C7_Witness ==
    /\ Returned
    /\ Len(toc) = 3
    /\ toc[1].title = <<"C", "h", " ", "1">>
    /\ toc[2].title = <<"C", "h", " ", "1">>
    /\ toc[3].title = <<"C", "h", " ", "2">>
    /\ Len(loop.chapters) = 2

\* C8: on return the k-th chapter is the k-th distinct cleaned title in
\* first-occurrence order, its track is "k/n" and its file "0k - <title>.mp3"
\* (n below 10 here, so k is one digit and the padding is one zero).
C8_TrackNumbering ==
    Returned =>
        LET ch == loop.chapters
            n == Len(ch)
        IN  /\ n = Cardinality(FirstOccurrences(Len(toc)))
            /\ n < 10
            /\ \A k \in 1..n :
                  /\ \E i \in FirstOccurrences(Len(toc)) :
                        /\ Cardinality(FirstOccurrences(i)) = k
                        /\ ch[k].title = CleanTitle(i)
                  /\ ch[k].track = <<DigitChar(k), "/", DigitChar(n)>>
                  /\ ch[k].outfile =
                        <<"0", DigitChar(k), " ", "-", " ">> \o ch[k].title
                            \o <<".", "m", "p", "3">>

\* C8 witness: "Ch 1", "1. Ch 1", "Ch 2" returned, the last chapter being track 2/2
C8_Witness ==
    /\ Returned
    /\ Len(toc) = 3
    /\ toc[2].title = <<"1", ".", " ", "C", "h", " ", "1">>
    /\ Len(loop.chapters) = 2
    /\ loop.chapters[2].title = <<"C", "h", " ", "2">>
    /\ loop.chapters[2].track = <<"2", "/", "2">>
    /\ loop.chapters[2].outfile = <<"0", "2", " ", "-", " ", "C", "h", " ", "2", ".", "m", "p", "3">>


(***************************************************************************)
(* The command line: main, run, process_contents, download_and_process,    *)
(* convert_chapters.  One action per stretch of code between two calls of  *)
(* the outside world (the catalogue, the download server, the transcoder). *)
(* An exception nothing catches ends the process with exit status 1.       *)
(***************************************************************************)
MaxBooks == 2
MaxRuns == 2

BookTitle(i) == <<"B", "o", "o", "k", "'", "s", " ">> \o Str(i)

Ch1 == <<"C", "h", " ", "1">>
Ch2 == <<"C", "h", " ", "2">>

\* "Part01#590.0" then "Part02#10.0"
GoodToc ==
    << [title |-> Ch1, path |-> PartName(1) \o <<"#", "5", "9", "0", ".", "0">>],
       [title |-> Ch2, path |-> PartName(2) \o <<"#", "1", "0", ".", "0">>] >>

\* the second marker has neither a timestamp nor a path
UnknownRefToc == << GoodToc[1], [title |-> Ch2] >>

\* the second marker's timestamp "7" has one field
BadTimestampToc == << GoodToc[1], [title |-> Ch2, timestamp |-> <<"7">>] >>

\* the second marker names Part03, which a spine of two parts does not hold
MissingDurationToc ==
    << GoodToc[1], [title |-> Ch2, path |-> PartName(3) \o <<"#", "1", "0", ".", "0">>] >>

Spine == << [id |-> <<"a">>], [id |-> <<"b">>] >>

BookChoices(i) ==
    {[title |-> BookTitle(i), toc |-> t, spine |-> Spine, active |-> TRUE] :
        t \in {GoodToc, UnknownRefToc, BadTimestampToc, MissingDurationToc}}
    \cup {[title |-> BookTitle(i), toc |-> GoodToc, spine |-> Spine, active |-> FALSE]}

\* what ffprobe reports for a part file that exists
PartDuration(part) == IF part = PartName(1) THEN D600 ELSE D550

\* the transcoder exits 0 with its output written, or fails with or without a
\* partly written output left behind
TranscoderOutcomes == {"ok", "failed", "failed_partial"}

Cover == <<"c", "o", "v", "e", "r", ".", "j", "p", "g">>
FilesTxt == <<"f", "i", "l", "e", "s", ".", "t", "x", "t">>
Mp3 == <<".", "m", "p", "3">>

\* _valid_book_data of a dict
_valid_book_data(book) == IF "active" \in DOMAIN book THEN book.active ELSE TRUE

\* the book process_contents is working on
data == book_data[index + 1]

\* the files of download_dir
DownloadDir == IF dev THEN dev_dir[data.title] ELSE tmp_dir

\* the test of convert_chapters that skips a chapter without transcoding, here
\* dropped
SkipExisting_Never(outfile, files) == FALSE

\* os.path.isfile(outfile) in convert_chapters
SkipExisting(outfile, files) == outfile \in files

InitRun ==
    /\ book_files \in {bs \in [1..MaxBooks -> UNION {BookChoices(i) : i \in 1..MaxBooks}] :
                         \A i \in 1..MaxBooks : bs[i] \in BookChoices(i)}
    /\ dry_run = FALSE
    /\ dev = FALSE
    /\ book_data = <<>>
    /\ index = 0
    /\ result = TRUE
    /\ run_pc = "start"
    /\ exit_code = -1
    /\ returned = "none"
    /\ error = ""
    /\ run_no = 0
    /\ dest_dirs = {}
    /\ dest_files = {}
    /\ dev_dir = [t \in {BookTitle(i) : i \in 1..MaxBooks} |-> {}]
    /\ tmp_dir = {}
    /\ part_index = 0
    /\ all_found = TRUE
    /\ probed = <<>>
    /\ timeline = <<>>
    /\ ch_index = 0
    /\ outcomes = <<>>
    /\ invocations = {}
    /\ exported = {}
    /\ failed_export = {}
    /\ CleanIdle
    /\ StartIdle
    /\ CompileIdle

other_vars == <<clean_vars, start_vars, compile_vars>>

\* the locals of a call that has ended
LocalsGone ==
    /\ part_index' = 0
    /\ all_found' = TRUE
    /\ probed' = <<>>
    /\ timeline' = <<>>
    /\ ch_index' = 0

\* download_dir holds files_; the temporary directory of a run without --dev goes
\* when download_and_process is left (gone)
SetDownloadDir(files_, gone) ==
    /\ dev_dir' = IF dev THEN [dev_dir EXCEPT ![data.title] = files_] ELSE dev_dir
    /\ tmp_dir' = IF dev \/ gone THEN tmp_dir ELSE files_

\* an exception leaves process_contents, run and main: the process ends with a
\* traceback and exit status 1
Uncaught(exception) ==
    /\ run_pc' = "exit"
    /\ exit_code' = 1
    /\ error' = exception
    /\ outcomes' = Append(outcomes, "raised")
    /\ LocalsGone
    /\ UNCHANGED <<book_files, dry_run, dev, book_data, index, result, returned, run_no>>

\* process_contents returns value to the loop of run, which stores it in self.result
ReturnToRun(value) ==
    /\ result' = value
    /\ index' = index + 1
    /\ outcomes' = Append(outcomes, IF value THEN "True" ELSE "False")
    /\ run_pc' = "books"
    /\ LocalsGone
    /\ UNCHANGED <<book_files, dry_run, dev, book_data, exit_code, returned, error, run_no>>

\* the command line is run: __init__, then run() up to its loop
Main ==
    /\ run_pc \in {"start", "exit"}
    /\ run_no < MaxRuns
    /\ \E p, d \in BOOLEAN : dry_run' = p /\ dev' = d
    /\ run_no' = run_no + 1
    /\ result' = TRUE
    /\ outcomes' = <<>>
    /\ index' = 0
    /\ book_data' = SelectSeq(book_files, _valid_book_data)
    /\ IF book_data' = <<>>
       THEN returned' = "False" /\ exit_code' = 1 /\ run_pc' = "exit"
       ELSE returned' = "none" /\ exit_code' = -1 /\ run_pc' = "books"
    /\ error' = ""
    /\ UNCHANGED <<book_files, fs_vars, call_vars, invocations, exported, failed_export,
                   other_vars>>

\* process_contents up to the call of download_and_process, and that call up to
\* its loop over the spine
ProcessContents ==
    /\ run_pc = "books"
    /\ index < Len(book_data)
    /\ IF ~dev /\ data.title \in dest_dirs
       THEN /\ ReturnToRun(TRUE)
            /\ UNCHANGED fs_vars
       ELSE \E release_date_found \in BOOLEAN :
               IF ~release_date_found
               THEN Uncaught("KeyError: Could not find date") /\ UNCHANGED fs_vars
               ELSE /\ SetDownloadDir((IF dev THEN dev_dir[data.title] ELSE {}) \cup {Cover},
                                      FALSE)
                    /\ part_index' = 0
                    /\ all_found' = TRUE
                    /\ probed' = <<>>
                    /\ run_pc' = "parts"
                    /\ UNCHANGED <<book_files, dry_run, dev, book_data, index, result,
                                   exit_code, returned, error, run_no, dest_dirs, dest_files,
                                   timeline, ch_index, outcomes>>
    /\ UNCHANGED <<invocations, exported, failed_export, other_vars>>

\* one iteration of the loop over the spine: the part is fetched unless its file is
\* there, then probed; probing a file that is not there raises
DownloadPart ==
    /\ run_pc = "parts"
    /\ part_index < Len(data.spine)
    /\ LET item == data.spine[part_index + 1]
           part == PartName(part_index + 1)
           file_path == part \o Mp3
       IN  IF ~("id" \in DOMAIN item \/ "path" \in DOMAIN item)
           THEN /\ part_index' = part_index + 1
                /\ UNCHANGED <<book_files, dry_run, dev, book_data, index, result, run_pc,
                               exit_code, returned, error, run_no, fs_vars, all_found, probed,
                               timeline, ch_index, outcomes>>
           ELSE \E status_code \in {200, 404} :
                   LET requested == file_path \notin DownloadDir
                       files_ == IF requested /\ status_code = 200
                                 THEN DownloadDir \cup {file_path}
                                 ELSE DownloadDir
                   IN  IF file_path \notin files_
                       THEN /\ Uncaught("ffmpeg.Error: ffprobe")
                            /\ SetDownloadDir(files_, TRUE)
                            /\ UNCHANGED <<dest_dirs, dest_files>>
                       ELSE /\ SetDownloadDir(files_, FALSE)
                            /\ all_found' = IF requested /\ status_code # 200 THEN FALSE
                                            ELSE all_found
                            /\ probed' = [k \in DOMAIN probed \cup {part} |->
                                             IF k = part THEN PartDuration(part)
                                             ELSE probed[k]]
                            /\ part_index' = part_index + 1
                            /\ UNCHANGED <<book_files, dry_run, dev, book_data, index,
                                           result, run_pc, exit_code, returned, error, run_no,
                                           dest_dirs, dest_files, timeline, ch_index,
                                           outcomes>>
    /\ UNCHANGED <<invocations, exported, failed_export, other_vars>>

\* after the loop over the spine: the all_found test, the merge, compile_chapters,
\* and convert_chapters up to its loop
MergeAndCompile ==
    /\ run_pc = "parts"
    /\ part_index = Len(data.spine)
    /\ IF ~all_found
       THEN /\ ReturnToRun(FALSE)
            /\ SetDownloadDir(DownloadDir, TRUE)
            /\ UNCHANGED <<dest_dirs, dest_files>>
       ELSE \E merge \in TranscoderOutcomes :
               LET final_file == clean_string(data.title, StripApostrophes) \o Mp3
                   listed == DownloadDir \cup {FilesTxt}
                   merging == final_file \notin listed /\ ~dry_run
                   files_ == IF merging /\ merge \in {"ok", "failed_partial"}
                             THEN listed \cup {final_file}
                             ELSE listed
                   compiled == compile_chapters(data.toc, probed)
               IN  IF (merging /\ merge # "ok") \/ compiled.raised # ""
                   THEN /\ Uncaught(IF merging /\ merge # "ok" THEN "CalledProcessError"
                                     ELSE compiled.raised)
                        /\ SetDownloadDir(files_, TRUE)
                        /\ UNCHANGED <<dest_dirs, dest_files>>
                   ELSE /\ SetDownloadDir(files_, FALSE)
                        /\ dest_dirs' = dest_dirs \cup {data.title}
                        /\ timeline' = compiled.chapters
                        /\ ch_index' = 0
                        /\ run_pc' = "chapters"
                        /\ UNCHANGED <<book_files, dry_run, dev, book_data, index, result,
                                       exit_code, returned, error, run_no, dest_files, part_index,
                                       all_found, probed, outcomes>>
    /\ UNCHANGED <<invocations, exported, failed_export, other_vars>>

\* one iteration of the loop of convert_chapters
ConvertChapter ==
    /\ run_pc = "chapters"
    /\ ch_index < Len(timeline)
    /\ LET chapter == timeline[ch_index + 1]
           outfile == <<data.title, chapter.outfile>>
           continue == /\ ch_index' = ch_index + 1
                       /\ UNCHANGED <<book_files, dry_run, dev, book_data, index, result,
                                      run_pc, exit_code, returned, error, run_no, dest_dirs,
                                      dev_dir, tmp_dir, part_index, all_found, probed,
                                      timeline, outcomes>>
       IN  IF SkipExisting(outfile, dest_files) \/ dry_run
           THEN /\ continue
                /\ UNCHANGED <<dest_files, invocations, failed_export>>
           ELSE \E transcode \in TranscoderOutcomes :
                   /\ invocations' = invocations \cup
                         {[run |-> run_no, title |-> data.title, outfile |-> chapter.outfile,
                           existed |-> outfile \in dest_files,
                           after_export |-> data.title \in exported]}
                   /\ dest_files' = IF transcode \in {"ok", "failed_partial"}
                                    THEN dest_files \cup {outfile}
                                    ELSE dest_files
                   /\ IF transcode = "ok"
                      THEN continue /\ UNCHANGED failed_export
                      ELSE /\ Uncaught("RuntimeError: command return with error")
                           /\ SetDownloadDir(DownloadDir, TRUE)
                           /\ UNCHANGED dest_dirs
                           /\ failed_export' =
                                 IF \E f \in dest_files : f[1] = data.title
                                 THEN failed_export \cup {data.title}
                                 ELSE failed_export
    /\ UNCHANGED <<exported, other_vars>>

\* convert_chapters, download_and_process and process_contents return
ConvertReturn ==
    /\ run_pc = "chapters"
    /\ ch_index = Len(timeline)
    /\ ReturnToRun(TRUE)
    /\ SetDownloadDir(DownloadDir, TRUE)
    /\ exported' = IF dry_run THEN exported ELSE exported \cup {data.title}
    /\ UNCHANGED <<dest_dirs, dest_files, invocations, failed_export, other_vars>>

\* the loop of run is over: run returns self.result and main exits
RunReturn ==
    /\ run_pc = "books"
    /\ index = Len(book_data)
    /\ returned' = IF result THEN "True" ELSE "False"
    /\ exit_code' = IF result THEN 0 ELSE 1
    /\ run_pc' = "exit"
    /\ UNCHANGED <<book_files, dry_run, dev, book_data, index, result, error, run_no,
                   fs_vars, call_vars, ghost_vars, other_vars>>

NextRun ==
    \/ Main
    \/ ProcessContents
    \/ DownloadPart
    \/ MergeAndCompile
    \/ ConvertChapter
    \/ ConvertReturn
    \/ RunReturn

SpecRun == InitRun /\ [][NextRun]_vars


(***************************************************************************)
(* Properties of the batch run and of the export                           *)
(***************************************************************************)
Exited == run_pc = "exit"

\* the fatal conditions of one book: a failed download (the probe of the part that
\* is not there), a transcoder exit other than 0 (merge or chapter), a missing
\* duration, an invalid timestamp, an unknown chapter reference
BookFailures ==
    {"ffmpeg.Error: ffprobe", "CalledProcessError", "RuntimeError: command return with error",
     "KeyError", "RuntimeError: Invalid timestamp format",
     "Exception: Unknown chapter reference"}

\* C3 (as claimed): a fatal condition in one book aborts only that book, so when
\* the process has ended process_contents has been called for every active book.
C3_EveryBookProcessed ==
    (Exited /\ (error = "" \/ error \in BookFailures)) => Len(outcomes) = Len(book_data)

\* C4 (as claimed): if process_contents returned False or failed for any book of
\* the batch, run() returns False and the process exits with a non-zero code.
C4_FailureReported ==
    (/\ Exited
     /\ error = "" \/ error \in BookFailures
     /\ \E i \in 1..Len(outcomes) : outcomes[i] # "True") =>
        returned = "False" /\ exit_code # 0

\* C5: the transcoder is never called on an output path that exists as a file, and
\* never for a book whose export (not a dry run) has been completed before: a
\* second convert_chapters on the same timeline and destination calls it 0 times.
C5_ExportIdempotent ==
    \A call \in invocations : ~call.existed /\ ~call.after_export

\* C5 witness: the first run exported book 1 with the transcoder, a second run
\* with --dev has gone through convert_chapters for it again and called the
\* transcoder for none of its chapters
C5_Witness ==
    /\ run_no = 2
    /\ dev
    /\ ~dry_run
    /\ Len(outcomes) >= 1
    /\ outcomes[1] = "True"
    /\ book_data[1].title = BookTitle(1)
    /\ \E call \in invocations : call.run = 1 /\ call.title = BookTitle(1)
    /\ \A call \in invocations : call.title = BookTitle(1) => call.run = 1
    /\ BookTitle(1) \in exported
    /\ \A k \in 1..2 : <<BookTitle(1), OutfileName(k, IF k = 1 THEN Ch1 ELSE Ch2)>> \in dest_files

\* C6 (as claimed): after an export that failed with some chapter files written, a
\* later run of the same book without --dev (and not a dry run) that ends well for
\* the book leaves one file per compiled chapter in the destination.
C6_RerunCompletes ==
    \A i \in 1..Len(outcomes) :
        (/\ run_no >= 2
         /\ ~dev
         /\ ~dry_run
         /\ outcomes[i] = "True"
         /\ book_data[i].title \in failed_export)
        => LET compiled == compile_chapters(book_data[i].toc,
                                            [part \in {PartName(1), PartName(2)} |->
                                                PartDuration(part)])
           IN  \A k \in 1..Len(compiled.chapters) :
                  <<book_data[i].title, compiled.chapters[k].outfile>> \in dest_files

\* the file of the part the loop over the spine is about to take
NextPartFile == PartName(part_index + 1) \o Mp3

\* this step of the loop over the spine could not retrieve its part: the file was
\* not there before it and is not there after it
PartNotRetrieved ==
    /\ run_pc = "parts"
    /\ part_index < Len(data.spine)
    /\ NextPartFile \notin DownloadDir
    /\ NextPartFile \notin DownloadDir'

\* C11 (as claimed): a part that cannot be retrieved is recorded (all_found
\* becomes False) and the loop goes on to the next part of the spine; once every
\* part has been taken with a part missing, download_and_process returns False
\* to run() with no merged file, no chapter file and no transcoder call.
C11_MissingPartsAbort ==
    /\ [][PartNotRetrieved =>
            /\ run_pc' = "parts"
            /\ part_index' = part_index + 1
            /\ all_found' = FALSE]_vars
    /\ [][(run_pc = "parts" /\ part_index = Len(data.spine) /\ ~all_found) =>
            /\ outcomes' = Append(outcomes, "False")
            /\ error' = ""
            /\ dest_files' = dest_files
            /\ invocations' = invocations]_vars

====
